---- MODULE Spec2Model ----
\* A model of the WebSocket relay of server/index.js: the session table, the
\* per-socket role binding (clientInfo) and liveness flag, the message handlers,
\* the close handler and the heartbeat sweep.
EXTENDS Integers, Sequences, FiniteSets, TLC

\* ------------------------------------------------------------------ bounds

\* Number of sockets that ever connect.  Socket k is the k-th to connect, so
\* the insertion order of wss.clients is the numeric order.
MaxConns == 3
\* Cap on clientCounter (number of successful joins).
MaxJoins == 2

Conns == 1..MaxConns

\* Values Date.now() may return when an id is generated.  Ids generated at the
\* same instant differ by the counter alone, so one instant is the hard case.
Times == {0}

\* ------------------------------------------------------------------ values

\* A JavaScript string is a sequence of characters.
WhiteSpace == {" "}

toUpperCase(ch) ==
  CASE ch = "a" -> "A"
    [] ch = "b" -> "B"
    [] OTHER -> ch

RECURSIVE trimStart(_)
trimStart(s) ==
  IF s # <<>> /\ Head(s) \in WhiteSpace THEN trimStart(Tail(s)) ELSE s

RECURSIVE trimEnd(_)
trimEnd(s) ==
  IF s # <<>> /\ s[Len(s)] \in WhiteSpace
    THEN trimEnd(SubSeq(s, 1, Len(s) - 1))
    ELSE s

trim(s) == trimEnd(trimStart(s))

\* A message field is a typed value: [t |-> typeof, v |-> characters].
Str(s) == [t |-> "string", v |-> s]
Undefined == [t |-> "undefined", v |-> <<>>]
NumberOne == [t |-> "number", v |-> <<"1">>]

\* normalizeCode without toUpperCase.
normalizeCodeKeepsCase(value) ==
  IF value.t # "string" THEN <<>> ELSE trim(value.v)

normalizeCode(value) ==
  IF value.t # "string"
    THEN <<>>
    ELSE [i \in 1..Len(trim(value.v)) |-> toUpperCase(trim(value.v)[i])]

\* The code values clients send.
RawCodes ==
  { Str(<<"a">>), Str(<<" ", "A", " ">>), Str(<<"b">>), Str(<<" ">>), Undefined }

Codes == { normalizeCode(r) : r \in RawCodes } \ {<<>>}

NoCode == <<>>
NoId == <<>>

\* createClientId's string `c-${time}-${counter}` as the pair it is built from.
PlayerIds == { <<t, n>> : t \in Times, n \in 1..MaxJoins }

\* socket.clientInfo: null, { role: 'dm', code } or { role: 'player', code, playerId }.
NoInfo == [role |-> "none", code |-> NoCode, playerId |-> NoId]
DmInfo(code) == [role |-> "dm", code |-> code, playerId |-> NoId]
PlayerInfo(code, id) == [role |-> "player", code |-> code, playerId |-> id]

\* Relay payloads by JavaScript kind: an object, null, a non-empty string, the
\* empty string, a missing field.
Payloads == {"object", "null", "string", "emptyString", "undefined"}
typeOf(p) ==
  CASE p \in {"object", "null"} -> "object"
    [] p \in {"string", "emptyString"} -> "string"
    [] OTHER -> p
\* !!p: null, the empty string and undefined are falsy.
truthy(p) == p \in {"object", "string"}

\* Outbound frames.
NoPayload == "undefined"
NoMessage == ""
Frame(type, code, playerId, payload, message) ==
  [type |-> type, code |-> code, playerId |-> playerId,
   payload |-> payload, message |-> message]

MsgInvalidCreate == "Invalid session code. Refresh the page and try again."
MsgAlreadyHosting == "You are already hosting a session."
MsgSessionExists == "A session with that code already exists."
MsgInvalidJoin == "Enter a valid session code from your DM."
MsgNotFound == "Session not found. Ask your DM for a new code."
MsgDmDisconnected == "The DM disconnected."
MsgDmClosed == "The DM closed the session."
MsgTimedOut == "Connection timed out."
MsgUnavailable == "Session unavailable."

\* ------------------------------------------------------------------ state

VARIABLES
  sessions,       \* the sessions Map: normalized code -> [code, dm, players]
  clientCounter,  \* the id counter
  readyState,     \* per socket: "NONE" (not connected yet), "OPEN", "CLOSING", "CLOSED"
  isAlive,        \* per socket: the liveness flag
  clientInfo,     \* per socket: the role binding
  destroyed,      \* sockets whose channel terminate() destroyed
  peerClosed      \* sockets whose peer started the close: no frame follows

vars ==
  <<sessions, clientCounter, readyState, isAlive, clientInfo, destroyed, peerClosed>>

\* wss.clients: a socket is in the set from 'connection' until its 'close' event.
clients == { s \in Conns : readyState[s] \in {"OPEN", "CLOSING"} }

\* A players Map is the sequence of its entries, in insertion order.
MapHas(players, id) == \E i \in 1..Len(players) : players[i].id = id
MapIndex(players, id) == CHOOSE i \in 1..Len(players) : players[i].id = id
\* Map.get: the stored socket, or NoSocket for undefined.
NoSocket == 0
MapGet(players, id) ==
  IF MapHas(players, id) THEN players[MapIndex(players, id)].socket ELSE NoSocket
MapSet(players, id, socket) ==
  IF MapHas(players, id)
    THEN [players EXCEPT ![MapIndex(players, id)].socket = socket]
    ELSE Append(players, [id |-> id, socket |-> socket])
MapDelete(players, id) ==
  IF MapHas(players, id)
    THEN [i \in 1..(Len(players) - 1) |->
            IF i < MapIndex(players, id) THEN players[i] ELSE players[i + 1]]
    ELSE players

\* The part of the state the handlers and helpers read and write, and `sent`:
\* the frames a handler wrote to the sockets, in order.  A handler maps the
\* world it is called in to the world it leaves, its output in `sent`.
World ==
  [sessions |-> sessions, clientCounter |-> clientCounter,
   readyState |-> readyState, clientInfo |-> clientInfo, sent |-> <<>>]

\* ------------------------------------------------------------------ helpers

\* createClientId with the counter left out of the id.
createClientIdByTime(counter, now) ==
  [counter |-> counter + 1, id |-> <<now, 0>>]

createClientId(counter, now) ==
  [counter |-> counter + 1, id |-> <<now, counter + 1>>]

\* safeSend: the frame is written only to a socket that is OPEN.
safeSend(w, socket, payload) ==
  IF socket = NoSocket \/ w.readyState[socket] # "OPEN"
    THEN w
    ELSE [w EXCEPT !.sent = Append(@, [to |-> socket, msg |-> payload])]

\* socket.close(): starts the closing handshake of an OPEN socket; the 'close'
\* event comes later.
socketClose(w, socket) ==
  IF w.readyState[socket] = "OPEN"
    THEN [w EXCEPT !.readyState[socket] = "CLOSING"]
    ELSE w

\* endSessionPlayer that leaves the participant's binding in place.
endSessionPlayerKeepsBinding(w, playerSocket, reason) ==
  socketClose(safeSend(w, playerSocket,
                       Frame("session-closed", NoCode, NoId, NoPayload, reason)),
              playerSocket)

\* The forEach callback of endSession, for one entry of session.players.
endSessionPlayer(w, playerSocket, reason) ==
  LET w1 == safeSend(w, playerSocket,
                     Frame("session-closed", NoCode, NoId, NoPayload, reason))
      w2 == socketClose(w1, playerSocket)
  IN  [w2 EXCEPT !.clientInfo[playerSocket] = NoInfo]

RECURSIVE endSessionPlayers(_, _, _)
endSessionPlayers(w, players, reason) ==
  IF players = <<>>
    THEN w
    ELSE endSessionPlayers(endSessionPlayer(w, Head(players).socket, reason),
                           Tail(players), reason)

\* endSession without sessions.delete.
endSessionKeepsSession(w, code, reason) ==
  endSessionPlayers(w, w.sessions[code].players, reason)

endSession(w, code, reason) ==
  LET session == w.sessions[code]
      w1 == [w EXCEPT !.sessions = [c \in (DOMAIN @) \ {session.code} |-> @[c]]]
  IN  endSessionPlayers(w1, session.players, reason)

\* The player branch of detachClient: the entry is deleted only when it still
\* maps the id to this socket, and the host is told if it is OPEN.
detachPlayer(w, socket, info) ==
  IF info.code \in DOMAIN w.sessions
     /\ MapGet(w.sessions[info.code].players, info.playerId) = socket
    THEN LET wd == [w EXCEPT !.sessions[info.code].players =
                               MapDelete(@, info.playerId)]
             dm == wd.sessions[info.code].dm
         IN  IF wd.readyState[dm] = "OPEN"
               THEN safeSend(wd, dm,
                             Frame("player-left", NoCode, info.playerId,
                                   NoPayload, NoMessage))
               ELSE wd
    ELSE w

\* detachClient that closes the socket whatever `silent` says.
detachClientNotSilent(w, socket, silent, reason) ==
  LET info == w.clientInfo[socket] IN
  IF info = NoInfo
    THEN w
    ELSE
      LET w1 ==
            IF info.role = "dm"
              THEN IF info.code \in DOMAIN w.sessions
                      /\ w.sessions[info.code].dm = socket
                     THEN endSession(w, info.code,
                                     IF reason # "" THEN reason ELSE MsgDmDisconnected)
                     ELSE w
              ELSE IF info.role = "player"
                     THEN detachPlayer(w, socket, info)
                     ELSE w
          w2 == [w1 EXCEPT !.clientInfo[socket] = NoInfo]
      IN  socketClose(w2, socket)

\* detachClient(socket, { reason, silent }); reason "" is an absent reason.
detachClient(w, socket, silent, reason) ==
  LET info == w.clientInfo[socket] IN
  IF info = NoInfo
    THEN w
    ELSE
      LET w1 ==
            IF info.role = "dm"
              THEN IF info.code \in DOMAIN w.sessions
                      /\ w.sessions[info.code].dm = socket
                     THEN endSession(w, info.code,
                                     IF reason # "" THEN reason ELSE MsgDmDisconnected)
                     ELSE w
              ELSE IF info.role = "player"
                     THEN detachPlayer(w, socket, info)
                     ELSE w
          w2 == [w1 EXCEPT !.clientInfo[socket] = NoInfo]
      IN  IF ~silent /\ w2.readyState[socket] = "OPEN"
            THEN socketClose(w2, socket)
            ELSE w2

\* ------------------------------------------------------------------ handlers

\* sessionUnavailable without the test of the host's readyState.
sessionUnavailableIgnoresHost(w, code) == code \notin DOMAIN w.sessions

\* `!session || session.dm.readyState !== WebSocket.OPEN`
sessionUnavailable(w, code) ==
  \/ code \notin DOMAIN w.sessions
  \/ w.readyState[w.sessions[code].dm] # "OPEN"

\* playerRelay without the sender's id.
playerRelayUntagged(info, message) ==
  Frame("relay", NoCode, NoId, message.payload, NoMessage)

\* The frame relayFromPlayer sends to the host.
playerRelay(info, message) ==
  Frame("relay", NoCode, info.playerId, message.payload, NoMessage)

SessionError(message) == Frame("session-error", NoCode, NoId, NoPayload, message)

handleCreateSession(w, socket, message) ==
  LET code == normalizeCode(message.code) IN
  IF code = <<>>
    THEN safeSend(w, socket, SessionError(MsgInvalidCreate))
  ELSE IF w.clientInfo[socket].role = "dm"
    THEN safeSend(w, socket, SessionError(MsgAlreadyHosting))
  ELSE IF code \in DOMAIN w.sessions
    THEN safeSend(w, socket, SessionError(MsgSessionExists))
  ELSE
    LET session == [code |-> code, dm |-> socket, players |-> <<>>]
        w1 == [w EXCEPT !.sessions = [c \in (DOMAIN @) \cup {code} |->
                                        IF c = code THEN session ELSE @[c]],
                        !.clientInfo[socket] = DmInfo(code)]
    IN  safeSend(w1, socket,
                 Frame("session-created", code, NoId, NoPayload, NoMessage))

\* joinNotFound that also deletes the stale session.
joinNotFoundDropsSession(w, socket, code) ==
  safeSend([w EXCEPT !.sessions = [c \in (DOMAIN @) \ {code} |-> @[c]]],
           socket, SessionError(MsgNotFound))

\* The refusal of handleJoinSession when the session is missing or its host is
\* not OPEN: the error notice, and nothing else.
joinNotFound(w, socket, code) ==
  safeSend(w, socket, SessionError(MsgNotFound))

handleJoinSession(w, socket, message, now) ==
  LET code == normalizeCode(message.code) IN
  IF code = <<>>
    THEN safeSend(w, socket, SessionError(MsgInvalidJoin))
  ELSE IF sessionUnavailable(w, code)
    THEN joinNotFound(w, socket, code)
  ELSE
    LET dm == w.sessions[code].dm
        w1 == IF w.clientInfo[socket] # NoInfo
                THEN detachClient(w, socket, TRUE, "")
                ELSE w
        gen == createClientId(w1.clientCounter, now)
        playerId == gen.id
        \* `session` is the object fetched before the detach: when the detach
        \* removed it from the table, the insertion lands in an object that
        \* nothing references any more.
        w2 == IF code \in DOMAIN w1.sessions
                THEN [w1 EXCEPT !.sessions[code].players =
                                  MapSet(@, playerId, socket)]
                ELSE w1
        w3 == [w2 EXCEPT !.clientCounter = gen.counter,
                         !.clientInfo[socket] = PlayerInfo(code, playerId)]
        w4 == safeSend(w3, socket,
                       Frame("session-joined", code, playerId, NoPayload, NoMessage))
    IN  safeSend(w4, dm,
                 Frame("player-joined", NoCode, playerId, NoPayload, NoMessage))

relayFromPlayer(w, socket, message) ==
  LET info == w.clientInfo[socket] IN
  IF info = NoInfo \/ info.role # "player"
    THEN w
  ELSE IF sessionUnavailable(w, info.code)
    THEN detachClient(
           safeSend(w, socket,
                    Frame("session-closed", NoCode, NoId, NoPayload, NoMessage)),
           socket, FALSE, MsgUnavailable)
  ELSE IF typeOf(message.payload) # "object"
    THEN w
  ELSE safeSend(w, w.sessions[info.code].dm, playerRelay(info, message))

\* The forEach of relayFromDm's broadcast.
RECURSIVE relayToPlayers(_, _, _)
relayToPlayers(w, players, payload) ==
  IF players = <<>>
    THEN w
    ELSE relayToPlayers(
           safeSend(w, Head(players).socket,
                    Frame("relay", NoCode, NoId, payload, NoMessage)),
           Tail(players), payload)

relayFromDm(w, socket, message) ==
  LET info == w.clientInfo[socket] IN
  IF info = NoInfo \/ info.role # "dm"
    THEN w
  ELSE IF info.code \notin DOMAIN w.sessions
    THEN w
  ELSE IF ~truthy(message.payload) \/ typeOf(message.payload) # "object"
    THEN w
  ELSE IF message.playerId.t = "string" /\ message.playerId.v # <<>>
    THEN LET target == MapGet(w.sessions[info.code].players, message.playerId.v)
         IN  IF target # NoSocket
               THEN safeSend(w, target,
                             Frame("relay", NoCode, NoId, message.payload, NoMessage))
               ELSE w
  ELSE relayToPlayers(w, w.sessions[info.code].players, message.payload)

\* handleCloseSession without the tests of the sender's role and identity.
handleCloseSessionAnyone(w, socket) ==
  LET info == w.clientInfo[socket] IN
  IF info = NoInfo \/ info.code \notin DOMAIN w.sessions
    THEN w
    ELSE [endSession(w, info.code, MsgDmClosed) EXCEPT !.clientInfo[socket] = NoInfo]

handleCloseSession(w, socket) ==
  LET info == w.clientInfo[socket] IN
  IF info = NoInfo \/ info.role # "dm"
    THEN w
  ELSE IF info.code \notin DOMAIN w.sessions
          \/ w.sessions[info.code].dm # socket
    THEN w
  ELSE [endSession(w, info.code, MsgDmClosed) EXCEPT !.clientInfo[socket] = NoInfo]

\* The switch of socket.on('message').
onMessage(w, socket, message, now) ==
  CASE message.type = "create-session" -> handleCreateSession(w, socket, message)
    [] message.type = "join-session" -> handleJoinSession(w, socket, message, now)
    [] message.type = "relay" ->
         IF w.clientInfo[socket].role = "dm"
           THEN relayFromDm(w, socket, message)
           ELSE relayFromPlayer(w, socket, message)
    [] message.type = "close-session" -> handleCloseSession(w, socket)
    [] OTHER -> w

\* heartbeatSocket that times a socket out whatever its flag.
heartbeatSocketIgnoresFlag(w, socket) ==
  [detachClient(w, socket, TRUE, MsgTimedOut) EXCEPT !.readyState[socket] = "CLOSING"]

\* The callback of the heartbeat sweep for one socket of wss.clients, as it acts
\* on the world.  The sweep reads a socket's flag before it writes it and writes
\* no other socket's flag, so the flag read is the one the sweep started with.
heartbeatSocket(w, socket) ==
  IF isAlive[socket] = FALSE
    THEN \* detachClient, then socket.terminate()
         [detachClient(w, socket, TRUE, MsgTimedOut)
            EXCEPT !.readyState[socket] = "CLOSING"]
    ELSE \* (the flag is cleared, then) socket.ping()
         safeSend(w, socket, Frame("ping", NoCode, NoId, NoPayload, NoMessage))

\* wss.clients.forEach over the sockets k..last, in insertion order.
RECURSIVE heartbeatFrom(_, _, _)
heartbeatFrom(w, k, last) ==
  IF k > last
    THEN w
    ELSE heartbeatFrom(
           IF w.readyState[k] \in {"OPEN", "CLOSING"}
             THEN heartbeatSocket(w, k)
             ELSE w,
           k + 1, last)

\* ------------------------------------------------------------------ messages

Message(type, code, payload, playerId) ==
  [type |-> type, code |-> code, payload |-> payload, playerId |-> playerId]

CreateMessages == { Message("create-session", r, NoPayload, Undefined) : r \in RawCodes }
JoinMessages == { Message("join-session", r, NoPayload, Undefined) : r \in RawCodes }
TargetIds == { Str(id) : id \in PlayerIds } \cup { Undefined, Str(<<>>), NumberOne }
RelayMessages ==
  { Message("relay", Undefined, "object", t) : t \in TargetIds }
    \cup { Message("relay", Undefined, p, Undefined) : p \in Payloads }
CloseMessages == { Message("close-session", Undefined, NoPayload, Undefined) }
OtherMessages ==
  { Message("undefined", Undefined, NoPayload, Undefined),
    Message("hello", Str(<<"a">>), "object", Undefined) }

\* ------------------------------------------------------------------ actions

Init ==
  /\ sessions = <<>>
  /\ clientCounter = 0
  /\ readyState = [s \in Conns |-> "NONE"]
  /\ isAlive = [s \in Conns |-> TRUE]
  /\ clientInfo = [s \in Conns |-> NoInfo]
  /\ destroyed = {}
  /\ peerClosed = {}

Install(w) ==
  /\ sessions' = w.sessions
  /\ clientCounter' = w.clientCounter
  /\ readyState' = w.readyState
  /\ clientInfo' = w.clientInfo

\* wss.on('connection'): the next socket connects.
Connect(socket) ==
  /\ readyState[socket] = "NONE"
  /\ \A k \in Conns : k < socket => readyState[k] # "NONE"
  /\ readyState' = [readyState EXCEPT ![socket] = "OPEN"]
  /\ isAlive' = [isAlive EXCEPT ![socket] = TRUE]
  /\ clientInfo' = [clientInfo EXCEPT ![socket] = NoInfo]
  /\ UNCHANGED <<sessions, clientCounter, destroyed, peerClosed>>

\* A frame arrives on a socket whose channel still exists and whose peer has
\* not started the close.
CanReceive(socket) ==
  socket \in clients /\ socket \notin destroyed /\ socket \notin peerClosed

\* socket.on('pong')
Pong(socket) ==
  /\ CanReceive(socket)
  /\ isAlive' = [isAlive EXCEPT ![socket] = TRUE]
  /\ UNCHANGED <<sessions, clientCounter, readyState, clientInfo, destroyed, peerClosed>>

\* socket.on('message')
OnMessage(socket, message, now) ==
  /\ CanReceive(socket)
  /\ onMessage(World, socket, message, now).clientCounter <= MaxJoins
  /\ Install(onMessage(World, socket, message, now))
  /\ UNCHANGED <<isAlive, destroyed, peerClosed>>

CreateSession(socket, message) == OnMessage(socket, message, 0)
JoinSession(socket, message, now) == OnMessage(socket, message, now)
Relay(socket, message) == OnMessage(socket, message, 0)
CloseSession(socket, message) == OnMessage(socket, message, 0)
Ignored(socket, message) == OnMessage(socket, message, 0)

\* The peer of an OPEN socket starts the close (its close frame arrives, or the
\* connection ends): the library sets readyState to CLOSING and reads no
\* further frame from the socket; no handler runs, and the 'close' event comes
\* later.  (On a socket that is CLOSING already the peer's close frame changes
\* nothing a handler reads.)
PeerClose(socket) ==
  /\ readyState[socket] = "OPEN"
  /\ CanReceive(socket)
  /\ readyState' = [readyState EXCEPT ![socket] = "CLOSING"]
  /\ peerClosed' = peerClosed \cup {socket}
  /\ UNCHANGED <<sessions, clientCounter, isAlive, clientInfo, destroyed>>

\* socket.on('close'): the socket leaves wss.clients and is detached.  The flag
\* and the channel of a socket are read only while it is in wss.clients, so
\* they are dropped with it.
OnClose(socket) ==
  /\ socket \in clients
  /\ Install(detachClient([World EXCEPT !.readyState[socket] = "CLOSED"],
                          socket, TRUE, ""))
  /\ isAlive' = [isAlive EXCEPT ![socket] = TRUE]
  /\ destroyed' = destroyed \ {socket}
  /\ peerClosed' = peerClosed \ {socket}

\* The heartbeat interval fires.
Tick ==
  \* terminate() destroys the channel of every socket whose flag was cleared,
  /\ destroyed' = destroyed \cup { s \in clients : isAlive[s] = FALSE }
  /\ peerClosed' = peerClosed \ { s \in clients : isAlive[s] = FALSE }
  \* every other socket has its flag cleared,
  /\ isAlive' = [s \in Conns |-> IF s \in clients THEN FALSE ELSE isAlive[s]]
  \* and the sockets are detached or probed in the order of the sweep.
  /\ Install(heartbeatFrom(World, 1, MaxConns))

Next ==
  \/ \E s \in Conns : Connect(s)
  \/ \E s \in Conns : Pong(s)
  \/ \E s \in Conns, m \in CreateMessages : CreateSession(s, m)
  \/ \E s \in Conns, m \in JoinMessages, now \in Times : JoinSession(s, m, now)
  \/ \E s \in Conns, m \in RelayMessages : Relay(s, m)
  \/ \E s \in Conns, m \in CloseMessages : CloseSession(s, m)
  \/ \E s \in Conns, m \in OtherMessages : Ignored(s, m)
  \/ \E s \in Conns : PeerClose(s)
  \/ \E s \in Conns : OnClose(s)
  \/ Tick

Spec == Init /\ [][Next]_vars

\* ENABLED <<Tick>>_vars as a state predicate: the sweep changes the state
\* exactly when wss.clients holds a socket whose flag is set or whose channel
\* is not destroyed yet.
TickEnabled == \E s \in clients : isAlive[s] \/ s \notin destroyed

\* The interval timer keeps firing: weak fairness of Tick, WF_vars(Tick), with
\* its ENABLED written as TickEnabled.
TickFairness == []<>(~TickEnabled) \/ []<><<Tick>>_vars

FairSpec == Spec /\ TickFairness

\* ------------------------------------------------------------------ vocabulary of the properties

\* What safeSend delivers in the current state: one frame to an OPEN socket,
\* nothing to any other.
Delivered(socket, payload) ==
  IF readyState[socket] = "OPEN" THEN <<[to |-> socket, msg |-> payload]>> ELSE <<>>

PlayerSockets(players) == { players[i].socket : i \in 1..Len(players) }
PlayerIdsOf(players) == { players[i].id : i \in 1..Len(players) }

\* The frames of a given type among those a handler wrote.
FramesOfType(out, type) == { i \in 1..Len(out) : out[i].msg.type = type }
FramesTo(out, socket, type) ==
  { i \in 1..Len(out) : out[i].to = socket /\ out[i].msg.type = type }

\* The teardown of a socket has been processed: its 'close' event ran, or the
\* heartbeat timed it out.
TornDown(socket) == readyState[socket] = "CLOSED" \/ socket \in destroyed

\* value is a case or surrounding-whitespace variant of the normalized code.
Letters(chars) == SelectSeq(chars, LAMBDA ch : ch \notin WhiteSpace)
SameLetter(x, y) ==
  \/ x = y
  \/ {x, y} = {"a", "A"}
  \/ {x, y} = {"b", "B"}
VariantOf(value, code) ==
  /\ value.t = "string"
  /\ Len(Letters(value.v)) = Len(code)
  /\ \A i \in 1..Len(code) : SameLetter(Letters(value.v)[i], code[i])

\* The world a handler left, as the next handler finds it.
Settled(w) == [w EXCEPT !.sent = <<>>]

SameTables(w) ==
  /\ w.sessions = sessions
  /\ w.clientInfo = clientInfo
  /\ w.clientCounter = clientCounter
  /\ w.readyState = readyState

\* ------------------------------------------------------------------ C1

\* C1: a session is in the table exactly while its host is not torn down: every
\* registered session is stored under its own normalized code and has a host
\* whose teardown has not been processed, and every connection that is bound as
\* host and not torn down has its session registered.
C1_SessionIffHostLive ==
  /\ \A c \in DOMAIN sessions :
       /\ sessions[c].code = c
       /\ c \in Codes
       /\ ~TornDown(sessions[c].dm)
  /\ \A s \in Conns :
       (clientInfo[s].role = "dm" /\ ~TornDown(s))
         => /\ clientInfo[s].code \in DOMAIN sessions
            /\ sessions[clientInfo[s].code].dm = s

\* ------------------------------------------------------------------ C2

\* C2 as stated: a create-session whose code is a variant of a registered code
\* fails with the SessionExists error, from every connection, and changes nothing.
C2_DuplicateCreateSessionExists ==
  \A s \in Conns, m \in CreateMessages, c \in DOMAIN sessions :
    (CanReceive(s) /\ VariantOf(m.code, c))
      => LET w == onMessage(World, s, m, 0)
         IN  /\ w.sent = Delivered(s, SessionError(MsgSessionExists))
             /\ SameTables(w)

\* C2 amended: the duplicate create fails with a session-error to the requester
\* and changes nothing; the error is SessionExists unless the requester is
\* bound as a host, and then it is "You are already hosting a session."
C2_DuplicateCreateFails ==
  \A s \in Conns, m \in CreateMessages, c \in DOMAIN sessions :
    (CanReceive(s) /\ VariantOf(m.code, c))
      => LET w == onMessage(World, s, m, 0)
         IN  /\ w.sent = Delivered(s, SessionError(
                   IF clientInfo[s].role = "dm"
                     THEN MsgAlreadyHosting
                     ELSE MsgSessionExists))
             /\ SameTables(w)

\* A session is registered and an open connection that hosts nothing is told
\* SessionExists for a lower-case, padded variant of its code.
C2_Witness ==
  \E s \in Conns, m \in CreateMessages, c \in DOMAIN sessions :
    /\ readyState[s] = "OPEN"
    /\ clientInfo[s].role # "dm"
    /\ VariantOf(m.code, c)
    /\ m.code.v # c
    /\ onMessage(World, s, m, 0).sent
         = <<[to |-> s, msg |-> SessionError(MsgSessionExists)]>>

\* ------------------------------------------------------------------ C3

\* The join of message m would be refused as SessionNotFound: its code is valid
\* and names no registered session, or one whose host is not OPEN.
NoLiveSession(m) ==
  /\ normalizeCode(m.code) # <<>>
  /\ \/ normalizeCode(m.code) \notin DOMAIN sessions
     \/ readyState[sessions[normalizeCode(m.code)].dm] # "OPEN"

\* C3: a join-session on a code with no registered session, or with a host that
\* is not OPEN, sends the requester the SessionNotFound session-error, generates
\* no id, and leaves the table and every binding unchanged.
C3_JoinNotFound ==
  \A s \in Conns, m \in JoinMessages, now \in Times :
    (CanReceive(s) /\ NoLiveSession(m))
      => LET w == onMessage(World, s, m, now)
         IN  /\ w.sent = Delivered(s, SessionError(MsgNotFound))
             /\ SameTables(w)

\* A bound, open connection joins a code whose registered host is not OPEN and
\* is told SessionNotFound.
C3_Witness ==
  \E s \in Conns, m \in JoinMessages :
    /\ readyState[s] = "OPEN"
    /\ clientInfo[s] # NoInfo
    /\ normalizeCode(m.code) \in DOMAIN sessions
    /\ readyState[sessions[normalizeCode(m.code)].dm] # "OPEN"
    /\ onMessage(World, s, m, 0).sent = <<[to |-> s, msg |-> SessionError(MsgNotFound)]>>

\* ------------------------------------------------------------------ C4

\* C4: whenever a join-session sends session-joined{c, p} to the requester, the
\* session c is then registered, maps p to the requester, and the requester is
\* bound as Participant{c, p}.
C4_JoinRegistersParticipant ==
  \A s \in Conns, m \in JoinMessages, now \in Times :
    CanReceive(s)
      => LET w == onMessage(World, s, m, now)
         IN  \A i \in FramesTo(w.sent, s, "session-joined") :
               LET c == w.sent[i].msg.code
                   p == w.sent[i].msg.playerId
               IN  /\ c \in DOMAIN w.sessions
                   /\ MapGet(w.sessions[c].players, p) = s
                   /\ w.clientInfo[s] = PlayerInfo(c, p)

\* ------------------------------------------------------------------ C5

\* Every id a session's participant map or a connection's binding refers to.
ReferencedIds ==
  UNION { PlayerIdsOf(sessions[c].players) : c \in DOMAIN sessions }
    \cup { clientInfo[s].playerId : s \in { x \in Conns : clientInfo[x].role = "player" } }

\* C5: the ids of the registered participants are pairwise distinct across all
\* sessions, no two connections are bound to the same id, and the id of a
\* successful join is none of the ids referenced before it.
C5_ParticipantIdsUnique ==
  /\ \A c1, c2 \in DOMAIN sessions :
       \A i \in 1..Len(sessions[c1].players), j \in 1..Len(sessions[c2].players) :
         (sessions[c1].players[i].id = sessions[c2].players[j].id)
           => (c1 = c2 /\ i = j)
  /\ \A s1, s2 \in Conns :
       (clientInfo[s1].role = "player" /\ clientInfo[s2].role = "player"
          /\ clientInfo[s1].playerId = clientInfo[s2].playerId) => s1 = s2
  /\ \A s \in Conns, m \in JoinMessages, now \in Times :
       CanReceive(s)
         => LET w == onMessage(World, s, m, now)
            IN  w.clientCounter # clientCounter
                  => /\ w.clientInfo[s].role = "player"
                     /\ w.clientInfo[s].playerId \notin ReferencedIds

\* Two sessions each hold a participant, and a further join succeeds.
C5_Witness ==
  /\ \E c1, c2 \in DOMAIN sessions :
       c1 # c2 /\ sessions[c1].players # <<>> /\ sessions[c2].players # <<>>
  /\ \E s \in Conns, m \in JoinMessages :
       /\ CanReceive(s)
       /\ onMessage(World, s, m, 0).clientCounter # clientCounter

\* ------------------------------------------------------------------ C6

RelayFrame(playerId, payload) == Frame("relay", NoCode, playerId, payload, NoMessage)
Targeted(m) == m.playerId.t = "string" /\ m.playerId.v # <<>>
ParticipantOf(socket, code) ==
  clientInfo[socket].role = "player" /\ clientInfo[socket].code = code

\* C6: a host relay with a structured payload and an explicit id delivers one
\* relay frame to the connection registered under that id and nothing else; with
\* no id it delivers to every registered participant of the host's session and
\* only to connections that are participants of that session.
C6_HostRelayTargets ==
  \A s \in Conns, m \in RelayMessages :
    (CanReceive(s) /\ clientInfo[s].role = "dm" /\ m.payload = "object"
       /\ clientInfo[s].code \in DOMAIN sessions)
      => LET c == clientInfo[s].code
             players == sessions[c].players
             w == onMessage(World, s, m, 0)
         IN  /\ SameTables(w)
             /\ Targeted(m) =>
                  w.sent = IF MapHas(players, m.playerId.v)
                             THEN Delivered(MapGet(players, m.playerId.v),
                                            RelayFrame(NoId, m.payload))
                             ELSE <<>>
             /\ ~Targeted(m) =>
                  /\ \A i \in 1..Len(w.sent) :
                       /\ w.sent[i].msg = RelayFrame(NoId, m.payload)
                       /\ ParticipantOf(w.sent[i].to, c)
                  /\ \A t \in PlayerSockets(players) :
                       (ParticipantOf(t, c) /\ readyState[t] = "OPEN")
                         => FramesTo(w.sent, t, "relay") # {}

\* ------------------------------------------------------------------ C7

\* C7: a relay with a structured payload from a connection bound as
\* Participant{c, p}, while the host of c is OPEN, writes exactly one frame: a
\* relay with that payload and the id p, to the host of c; nothing else changes.
C7_ParticipantRelayToHostOnly ==
  \A s \in Conns, m \in RelayMessages :
    (CanReceive(s) /\ clientInfo[s].role = "player" /\ m.payload = "object"
       /\ clientInfo[s].code \in DOMAIN sessions
       /\ readyState[sessions[clientInfo[s].code].dm] = "OPEN")
      => LET w == onMessage(World, s, m, 0)
         IN  /\ w.sent = << [to |-> sessions[clientInfo[s].code].dm,
                             msg |-> RelayFrame(clientInfo[s].playerId, m.payload)] >>
             /\ SameTables(w)

\* A participant of a session with two participants and an open host, while
\* another session has an open host too, relays a structured payload.
C7_Witness ==
  \E s \in Conns, m \in RelayMessages :
    /\ CanReceive(s) /\ clientInfo[s].role = "player" /\ m.payload = "object"
    /\ clientInfo[s].code \in DOMAIN sessions
    /\ readyState[sessions[clientInfo[s].code].dm] = "OPEN"
    /\ Len(sessions[clientInfo[s].code].players) >= 2
    /\ Len(onMessage(World, s, m, 0).sent) = 1

\* ------------------------------------------------------------------ C8

\* The host of the session a participant is bound to is gone.
HostGone(socket) ==
  /\ clientInfo[socket].role = "player"
  /\ \/ clientInfo[socket].code \notin DOMAIN sessions
     \/ readyState[sessions[clientInfo[socket].code].dm] # "OPEN"

\* The sessions with the entry id -> socket taken out of session code.
WithoutEntry(code, id, socket) ==
  [c \in DOMAIN sessions |->
     [sessions[c] EXCEPT !.players =
        SelectSeq(@, LAMBDA e : ~(c = code /\ e.id = id /\ e.socket = socket))]]

\* C8: the participant whose host is gone is sent a session-error notice
\* (delivered if its socket is open) and nothing is relayed; its entry is removed
\* from the session's participant map and its binding is cleared.
C8_HostGoneSessionError ==
  \A s \in Conns, m \in RelayMessages :
    (CanReceive(s) /\ HostGone(s))
      => LET w == onMessage(World, s, m, 0)
         IN  /\ readyState[s] = "OPEN" => FramesTo(w.sent, s, "session-error") # {}
             /\ FramesOfType(w.sent, "relay") = {}
             /\ w.clientInfo = [clientInfo EXCEPT ![s] = NoInfo]
             /\ w.sessions = WithoutEntry(clientInfo[s].code, clientInfo[s].playerId, s)

\* ------------------------------------------------------------------ C9

CloseMessage == Message("close-session", Undefined, NoPayload, Undefined)

LiveHost(socket) ==
  /\ readyState[socket] = "OPEN"
  /\ clientInfo[socket].role = "dm"
  /\ clientInfo[socket].code \in DOMAIN sessions
  /\ sessions[clientInfo[socket].code].dm = socket

\* C9: a close-session from the live host of c sends one session-closed frame to
\* every connection registered as participant of c (one that is OPEN), clears
\* their bindings and the host's, removes c, and any join on a variant of c that
\* follows directly is refused as SessionNotFound and changes nothing.
C9_CloseNotifiesAndRemoves ==
  \A s \in Conns :
    LiveHost(s)
      => LET c == clientInfo[s].code
             w == onMessage(World, s, CloseMessage, 0)
         IN  /\ \A t \in PlayerSockets(sessions[c].players) :
                  /\ Cardinality(FramesTo(w.sent, t, "session-closed"))
                       = IF readyState[t] = "OPEN" THEN 1 ELSE 0
                  /\ w.clientInfo[t] = NoInfo
             /\ \A i \in 1..Len(w.sent) :
                  /\ w.sent[i].to \in PlayerSockets(sessions[c].players)
                  /\ w.sent[i].msg = Frame("session-closed", NoCode, NoId,
                                           NoPayload, MsgDmClosed)
             /\ w.clientInfo[s] = NoInfo
             /\ c \notin DOMAIN w.sessions
             /\ \A c2 \in DOMAIN sessions \ {c} :
                  c2 \in DOMAIN w.sessions /\ w.sessions[c2] = sessions[c2]
             /\ \A t \in Conns, m \in JoinMessages, now \in Times :
                  (t \in clients /\ t \notin destroyed /\ VariantOf(m.code, c))
                    => LET w2 == onMessage(Settled(w), t, m, now)
                       IN  /\ w2.sent = IF w.readyState[t] = "OPEN"
                                          THEN <<[to |-> t, msg |-> SessionError(MsgNotFound)]>>
                                          ELSE <<>>
                           /\ Settled(w2) = Settled(w)

\* The live host of a session with two open participants can close it.
C9_Witness ==
  \E s \in Conns :
    /\ LiveHost(s)
    /\ Cardinality({ t \in PlayerSockets(sessions[clientInfo[s].code].players) :
                       readyState[t] = "OPEN" }) >= 2
    /\ Len(onMessage(World, s, CloseMessage, 0).sent) = 2

\* ------------------------------------------------------------------ C10

\* The world as the sweep finds it on reaching socket k, with nothing written yet.
SweepBefore(k) == Settled(heartbeatFrom(World, 1, k - 1))

\* The sweep of a tick tears down every socket k whose flag is cleared: what k is
\* bound to when the tick fires, its session as a host or its entry as a
\* participant, is gone when the sweep is over, and so is its binding.
TimeoutTeardownOnce(k) ==
  LET w == heartbeatFrom(World, 1, MaxConns)
      info == clientInfo[k]
  IN  (k \in clients /\ isAlive[k] = FALSE)
        => /\ w.readyState[k] = "CLOSING"
           /\ w.clientInfo[k] = NoInfo
           /\ info.role = "dm" => info.code \notin DOMAIN w.sessions
           /\ info.role = "player" =>
                (info.code \in DOMAIN w.sessions
                   => MapGet(w.sessions[info.code].players, info.playerId) # k)

\* Over a whole sweep no connection is sent session-closed twice and no id is
\* announced as left twice.
SweepNotifiesOnce ==
  LET out == heartbeatFrom(World, 1, MaxConns).sent
  IN  /\ \A t \in Conns : Cardinality(FramesTo(out, t, "session-closed")) <= 1
      /\ \A i, j \in FramesOfType(out, "player-left") :
           out[i].msg.playerId = out[j].msg.playerId => i = j

\* The 'close' event of a socket the sweep tore down removes and sends nothing.
CloseAfterTimeoutSilent ==
  \A s \in clients \cap destroyed :
    LET w == detachClient([World EXCEPT !.readyState[s] = "CLOSED"], s, TRUE, "")
    IN  /\ w.sent = <<>>
        /\ w.sessions = sessions
        /\ w.clientInfo = clientInfo

\* C10: with the interval firing, a connection whose flag stays cleared is torn
\* down by the sweep; when the sweep is over the session it hosted, or the entry
\* it had as a participant, is removed; each notification is sent once, and the
\* 'close' event that follows sends and removes nothing more.
C10_TimeoutTeardownOnce ==
  /\ \A s \in Conns :
       (s \in clients /\ isAlive[s])
         ~> (~isAlive[s] \/ s \notin clients)
  /\ \A s \in Conns :
       (s \in clients /\ ~isAlive[s] /\ s \notin destroyed)
         ~> (isAlive[s] \/ s \notin clients \/ s \in destroyed)
  /\ [](/\ \A k \in Conns : TimeoutTeardownOnce(k)
        /\ SweepNotifiesOnce
        /\ CloseAfterTimeoutSilent)

\* ------------------------------------------------------------------ C11

\* The create-session of message m by socket must fail: the code is invalid,
\* the code is taken, or the sender is bound.
CreateMustFail(socket, m) ==
  \/ normalizeCode(m.code) = <<>>
  \/ normalizeCode(m.code) \in DOMAIN sessions
  \/ clientInfo[socket] # NoInfo

\* C11: a create-session from a bound connection, or with an invalid or taken
\* code, registers no session and changes no binding.
C11_CreateOnlyFromUnbound ==
  \A s \in Conns, m \in CreateMessages :
    (CanReceive(s) /\ CreateMustFail(s, m))
      => LET w == onMessage(World, s, m, 0)
         IN  /\ w.sessions = sessions
             /\ w.clientInfo = clientInfo

\* ------------------------------------------------------------------ C12

\* The join of message m by a bound connection succeeds.
Rebind(socket, m) ==
  /\ CanReceive(socket)
  /\ clientInfo[socket] # NoInfo
  /\ normalizeCode(m.code) \in DOMAIN sessions
  /\ readyState[sessions[normalizeCode(m.code)].dm] = "OPEN"

\* socket is no longer in the session its binding info named.
RemovedFrom(w, socket, info) ==
  info.code \in DOMAIN w.sessions
    => /\ w.sessions[info.code].dm # socket \/ info.role # "dm"
       /\ MapGet(w.sessions[info.code].players, info.playerId) # socket
            \/ info.role # "player"

\* C12 as stated: a successful join by a bound connection removes it from its
\* previous session without closing it, sends no session-closed frame and
\* closes no socket.
C12_RebindAnnouncesNoClose ==
  \A s \in Conns, m \in JoinMessages, now \in Times :
    Rebind(s, m)
      => LET w == onMessage(World, s, m, now)
         IN  /\ RemovedFrom(w, s, clientInfo[s])
             /\ w.readyState = readyState
             /\ FramesOfType(w.sent, "session-closed") = {}

\* C12 amended: the rebinding connection is removed from its previous session
\* and is not closed.  A participant's rebind sends no session-closed frame and
\* closes no socket, and touches no other binding.  A host's rebind ends its
\* session: the session is removed and every connection in its participant map
\* is sent one session-closed frame if OPEN, is closed and is unbound; no other
\* connection is.
C12_RebindDetachesPriorBinding ==
  \A s \in Conns, m \in JoinMessages, now \in Times :
    Rebind(s, m)
      => LET w == onMessage(World, s, m, now)
             info == clientInfo[s]
             ended == IF info.role = "dm" /\ info.code \in DOMAIN sessions
                         /\ sessions[info.code].dm = s
                        THEN PlayerSockets(sessions[info.code].players)
                        ELSE {}
         IN  /\ RemovedFrom(w, s, info)
             /\ w.readyState[s] = readyState[s]
             /\ \A t \in Conns \ {s} :
                  /\ w.readyState[t] =
                       IF t \in ended /\ readyState[t] = "OPEN"
                         THEN "CLOSING" ELSE readyState[t]
                  /\ w.clientInfo[t] = IF t \in ended THEN NoInfo ELSE clientInfo[t]
                  /\ Cardinality(FramesTo(w.sent, t, "session-closed"))
                       = IF t \in ended /\ readyState[t] = "OPEN" THEN 1 ELSE 0
             /\ \A i \in FramesOfType(w.sent, "session-closed") :
                  w.sent[i].msg.message = MsgDmDisconnected
             /\ info.role = "dm" => (ended # {} \/ info.code \notin DOMAIN w.sessions)
             /\ DOMAIN w.sessions =
                  IF info.role = "dm" THEN DOMAIN sessions \ {info.code}
                                      ELSE DOMAIN sessions

\* The live host of a session with an open participant can join another
\* session whose host is open, and its participant is then sent session-closed.
C12_Witness ==
  \E s \in Conns, m \in JoinMessages :
    /\ Rebind(s, m)
    /\ LiveHost(s)
    /\ normalizeCode(m.code) # clientInfo[s].code
    /\ \E t \in PlayerSockets(sessions[clientInfo[s].code].players) :
         /\ readyState[t] = "OPEN"
         /\ FramesTo(onMessage(World, s, m, 0).sent, t, "session-closed") # {}

\* ------------------------------------------------------------------ C13

\* The join of message m is refused because the host of its session is not OPEN.
StaleJoin(socket, m) ==
  /\ CanReceive(socket)
  /\ normalizeCode(m.code) \in DOMAIN sessions
  /\ readyState[sessions[normalizeCode(m.code)].dm] # "OPEN"

\* C13 as stated: after a join-session on code c that fails because the host of
\* c is not live, session c is no longer in the table.
C13_StaleJoinDestroysSession ==
  \A s \in Conns, m \in JoinMessages, now \in Times :
    StaleJoin(s, m)
      => normalizeCode(m.code) \notin DOMAIN onMessage(World, s, m, now).sessions

\* C13 amended: after a join-session on code c that fails because the host of c
\* is not live, session c is still in the table with the same host and the same
\* participant map, and a create-session on a variant of c that follows directly
\* fails with a session-error and registers nothing.
C13_StaleJoinKeepsSession ==
  \A s \in Conns, m \in JoinMessages, now \in Times :
    StaleJoin(s, m)
      => LET c == normalizeCode(m.code)
             w == onMessage(World, s, m, now)
         IN  /\ c \in DOMAIN w.sessions
             /\ w.sessions[c] = sessions[c]
             /\ \A t \in Conns, m2 \in CreateMessages :
                  (CanReceive(t) /\ VariantOf(m2.code, c))
                    => LET w2 == onMessage(Settled(w), t, m2, 0)
                       IN  /\ w2.sessions = sessions
                           /\ w2.clientInfo = clientInfo
                           /\ w.readyState[t] = "OPEN"
                                => FramesTo(w2.sent, t, "session-error") # {}
                           /\ FramesOfType(w2.sent, "session-created") = {}

\* An open connection joins a session that holds a participant and whose host
\* is closing, and an open unbound connection is then refused the code.
C13_Witness ==
  \E s, t \in Conns, m \in JoinMessages, m2 \in CreateMessages :
    /\ StaleJoin(s, m)
    /\ readyState[s] = "OPEN"
    /\ readyState[sessions[normalizeCode(m.code)].dm] = "CLOSING"
    /\ sessions[normalizeCode(m.code)].players # <<>>
    /\ readyState[t] = "OPEN" /\ clientInfo[t] = NoInfo
    /\ VariantOf(m2.code, normalizeCode(m.code))
    /\ onMessage(Settled(onMessage(World, s, m, 0)), t, m2, 0).sent
         = <<[to |-> t, msg |-> SessionError(MsgSessionExists)]>>

\* ------------------------------------------------------------------ C14

\* The payload is missing or is not a structured object.
Unstructured(payload) == payload # "object"

\* C14: a relay whose payload is missing, null or not an object writes no frame
\* to any connection and changes neither the table nor any binding or socket,
\* whoever sends it and whatever the state of its session.
C14_UnstructuredRelayDropped ==
  \A s \in Conns, m \in RelayMessages :
    (CanReceive(s) /\ Unstructured(m.payload))
      => LET w == onMessage(World, s, m, 0)
         IN  /\ w.sent = <<>>
             /\ SameTables(w)

\* ------------------------------------------------------------------ C15

\* socket is the host of a registered session.
RegisteredHost(socket) ==
  /\ clientInfo[socket].role = "dm"
  /\ clientInfo[socket].code \in DOMAIN sessions
  /\ sessions[clientInfo[socket].code].dm = socket

\* A message the router must ignore when socket sends it: a close-session from
\* a connection that is not the host of a registered session, or a message
\* with an unrecognized or missing type.
MustIgnore(socket, m) ==
  /\ CanReceive(socket)
  /\ \/ m \in OtherMessages
     \/ m \in CloseMessages /\ ~RegisteredHost(socket)

\* C15: such a message writes no frame and leaves the session table, the id
\* counter and every binding and socket as they were, and no step that changes
\* a liveness flag or a channel is the handling of such a message.
C15_IgnoredMessages ==
  /\ [](\A s \in Conns, m \in CloseMessages \cup OtherMessages :
         MustIgnore(s, m)
           => LET w == onMessage(World, s, m, 0)
              IN  w.sent = <<>> /\ SameTables(w))
  /\ [][(<<isAlive, destroyed, peerClosed>>' # <<isAlive, destroyed, peerClosed>>)
         => \A s \in Conns, m \in CloseMessages \cup OtherMessages :
              ~(MustIgnore(s, m) /\ OnMessage(s, m, 0))]_vars

\* An open participant of a session with an open host, and an open unbound
\* connection, send a close-session and nothing happens.
C15_Witness ==
  \E s, t \in Conns :
    /\ readyState[s] = "OPEN" /\ clientInfo[s].role = "player"
    /\ clientInfo[s].code \in DOMAIN sessions
    /\ MapGet(sessions[clientInfo[s].code].players, clientInfo[s].playerId) = s
    /\ readyState[sessions[clientInfo[s].code].dm] = "OPEN"
    /\ readyState[t] = "OPEN" /\ clientInfo[t] = NoInfo
    /\ onMessage(World, s, CloseMessage, 0) = World
    /\ onMessage(World, t, CloseMessage, 0) = World

\* ------------------------------------------------------------------ C16

\* The 'close' event of socket, handled in world w.
closeEvent(w, socket) ==
  detachClient([Settled(w) EXCEPT !.readyState[socket] = "CLOSED"], socket, TRUE, "")

\* In world w the 'close' events of the given sockets remove and send nothing.
CloseEventsIdle(w, sockets) ==
  \A t \in sockets :
    LET w2 == closeEvent(w, t)
    IN  /\ w2.sent = <<>>
        /\ w2.sessions = w.sessions
        /\ w2.clientInfo = w.clientInfo
        /\ w2.clientCounter = w.clientCounter

\* socket hosts a registered session in world w.
HostsIn(w, socket) ==
  /\ w.clientInfo[socket].role = "dm"
  /\ w.clientInfo[socket].code \in DOMAIN w.sessions
  /\ w.sessions[w.clientInfo[socket].code].dm = socket

PlayersOf(w, socket) == PlayerSockets(w.sessions[w.clientInfo[socket].code].players)

\* The teardown that took w0 to w1 removed the entry of participant socket and
\* cleared its binding, and touched nothing else: no other entry, binding or
\* socket, no session, and no session-closed frame.
ParticipantTeardownLocal(w0, w1, socket) ==
  LET info == w0.clientInfo[socket] IN
  /\ w1.clientInfo = [w0.clientInfo EXCEPT ![socket] = NoInfo]
  /\ DOMAIN w1.sessions = DOMAIN w0.sessions
  /\ \A c \in DOMAIN w0.sessions :
       w1.sessions[c] =
         [w0.sessions[c] EXCEPT !.players =
            SelectSeq(@, LAMBDA e : ~(c = info.code /\ e.id = info.playerId
                                       /\ e.socket = socket))]
  /\ \A t \in Conns \ {socket} : w1.readyState[t] = w0.readyState[t]
  /\ \A i \in 1..Len(w1.sent) :
       /\ w1.sent[i].msg.type = "player-left"
       /\ info.code \in DOMAIN w0.sessions
       /\ w1.sent[i].to = w0.sessions[info.code].dm
  /\ Len(w1.sent) <= 1

\* C16: however a session ends (close-session, the host's 'close' event, the
\* host's timeout), the 'close' events of its participants that follow remove
\* nothing and send nothing; and the teardown of a participant ('close' event
\* or timeout) removes its own entry and binding only, closes no other socket
\* and sends at most one player-left, to its host.
C16_TeardownReentrantSafe ==
  /\ \A s \in Conns :
       (CanReceive(s) /\ HostsIn(World, s))
         => CloseEventsIdle(onMessage(World, s, CloseMessage, 0), PlayersOf(World, s))
  /\ \A s \in clients :
       HostsIn(World, s)
         => CloseEventsIdle(closeEvent(World, s), PlayersOf(World, s))
  /\ \A s \in clients :
       (isAlive[s] = FALSE /\ HostsIn(SweepBefore(s), s))
         => CloseEventsIdle(heartbeatSocket(SweepBefore(s), s),
                            PlayersOf(SweepBefore(s), s))
  /\ \A s \in clients :
       clientInfo[s].role = "player"
         => ParticipantTeardownLocal(
              [World EXCEPT !.readyState[s] = "CLOSED"], closeEvent(World, s), s)
  /\ \A s \in clients :
       (isAlive[s] = FALSE /\ SweepBefore(s).clientInfo[s].role = "player")
         => ParticipantTeardownLocal(
              [SweepBefore(s) EXCEPT !.readyState[s] = "CLOSING"],
              heartbeatSocket(SweepBefore(s), s), s)

\* A live host with two open, registered participants whose flags are cleared:
\* the session can end in each of the three ways and a participant can time out.
C16_Witness ==
  \E s \in Conns :
    /\ LiveHost(s)
    /\ isAlive[s] = FALSE
    /\ \E t1, t2 \in PlayersOf(World, s) :
         /\ t1 # t2
         /\ readyState[t1] = "OPEN" /\ readyState[t2] = "OPEN"
         /\ clientInfo[t1].role = "player" /\ clientInfo[t2].role = "player"
         /\ isAlive[t1] = FALSE
         /\ closeEvent(World, s).readyState[t1] = "CLOSING"
         /\ closeEvent(closeEvent(World, s), t1).clientInfo[t1] = NoInfo

\* ------------------------------------------------------------------ C17

PingFrame == Frame("ping", NoCode, NoId, NoPayload, NoMessage)

\* What the sweep does on reaching socket k: a socket whose flag is set is left
\* as it is and probed (the ping is written if the socket is OPEN), a socket
\* whose flag is cleared is unbound and terminated and is not probed.
SweepSparesAlive(k) ==
  LET w0 == SweepBefore(k)
      w1 == heartbeatSocket(w0, k)
  IN  /\ isAlive[k]
           => /\ w1.sent = IF w0.readyState[k] = "OPEN"
                             THEN <<[to |-> k, msg |-> PingFrame]>> ELSE <<>>
              /\ Settled(w1) = w0
      /\ ~isAlive[k]
           => /\ w1.readyState[k] = "CLOSING"
              /\ w1.clientInfo[k] = NoInfo
              /\ FramesTo(w1.sent, k, "ping") = {}

\* A tick terminates exactly the sockets whose flag it finds cleared, and
\* leaves the flag of every socket cleared.
TickTerminatesCleared ==
  Tick => \A s \in clients :
            /\ ~isAlive'[s]
            /\ s \in destroyed' <=> (s \in destroyed \/ ~isAlive[s])
            /\ isAlive[s] => readyState'[s] \in {"OPEN", "CLOSING"}

\* A flag that is set is cleared by a tick only, which does not terminate the
\* socket; a socket is terminated by a tick only, which found its flag
\* cleared; a pong and a new connection set the flag.
FlagSetUntilTick ==
  \A s \in Conns :
    /\ (isAlive[s] /\ ~isAlive'[s])
         => (Tick /\ s \in clients /\ (s \in destroyed' => s \in destroyed))
    /\ (s \notin destroyed /\ s \in destroyed')
         => (Tick /\ s \in clients /\ ~isAlive[s])
    /\ (Pong(s) \/ Connect(s)) => isAlive'[s]

\* C17: the monitor tears a connection down at a tick only if its flag was
\* cleared by the tick before and no pong arrived since: a connection that
\* acknowledged or was opened since the last tick survives the next one, and
\* every connection that survives a tick has its flag cleared and is probed.
C17_TeardownOnlyAfterMissedProbe ==
  /\ [](\A k \in clients : SweepSparesAlive(k))
  /\ [][TickTerminatesCleared /\ FlagSetUntilTick]_vars

\* At a tick one bound, open connection has acknowledged and another has not:
\* the sweep probes the first and terminates the second.
C17_Witness ==
  \E s, t \in clients :
    /\ s # t
    /\ readyState[s] = "OPEN" /\ readyState[t] = "OPEN"
    /\ clientInfo[s] # NoInfo /\ clientInfo[t] # NoInfo
    /\ isAlive[s] /\ ~isAlive[t] /\ t \notin destroyed
    /\ FramesTo(heartbeatFrom(World, 1, MaxConns).sent, s, "ping") # {}
    /\ heartbeatFrom(World, 1, MaxConns).readyState[t] = "CLOSING"
    /\ heartbeatFrom(World, 1, MaxConns).readyState[s] = "OPEN"

\* ------------------------------------------------------------------ C18

\* The places where the session table refers to socket: <<c, "dm">> when it is
\* the host of c, <<c, i>> when the i-th entry of c's participant map is its.
ReferencesTo(socket) ==
  { <<c, "dm">> : c \in { x \in DOMAIN sessions : sessions[x].dm = socket } }
    \cup UNION { { <<c, i>> : i \in { j \in 1..Len(sessions[c].players) :
                                       sessions[c].players[j].socket = socket } } :
                 c \in DOMAIN sessions }

\* C18: the table and the bindings agree: a connection is referenced by at most
\* one session, as host or as one participant entry; the connection of every
\* entry id -> conn of a registered session c is bound as Participant{c, id};
\* the host of every registered session c is bound as Host{c}; and every
\* connection bound as Host{c} is the host of the registered session c.
C18_TableAgreesWithBindings ==
  /\ \A s \in Conns : Cardinality(ReferencesTo(s)) <= 1
  /\ \A c \in DOMAIN sessions :
       /\ clientInfo[sessions[c].dm] = DmInfo(c)
       /\ \A i \in 1..Len(sessions[c].players) :
            clientInfo[sessions[c].players[i].socket]
              = PlayerInfo(c, sessions[c].players[i].id)
  /\ \A s \in Conns :
       clientInfo[s].role = "dm"
         => /\ clientInfo[s].code \in DOMAIN sessions
            /\ sessions[clientInfo[s].code].dm = s

\* ------------------------------------------------------------------ C19

\* The end of the session hosted by socket, which took w0 to w1, sent no
\* session-closed to, unbound and closed no connection that was the host or a
\* participant of another session, and left every other session and the
\* binding of its host as they were.
EndsOnlyOwn(w0, w1, socket) ==
  LET c == w0.clientInfo[socket].code IN
  /\ \A t \in Conns \ {socket} :
       (w0.clientInfo[t] # NoInfo /\ w0.clientInfo[t].code # c)
         => /\ FramesTo(w1.sent, t, "session-closed") = {}
            /\ w1.clientInfo[t] = w0.clientInfo[t]
            /\ w1.readyState[t] = w0.readyState[t]
  /\ \A c2 \in DOMAIN w0.sessions \ {c} :
       /\ c2 \in DOMAIN w1.sessions
       /\ w1.sessions[c2] = w0.sessions[c2]
       /\ w1.clientInfo[w0.sessions[c2].dm] = w0.clientInfo[w0.sessions[c2].dm]

\* C19: the end of a session by close-session, by the 'close' event of its host
\* or by the timeout of its host affects no connection that is the host or a
\* participant of a different session and removes or orphans no other session.
C19_EndAffectsOwnParticipantsOnly ==
  /\ \A s \in Conns :
       (CanReceive(s) /\ HostsIn(World, s))
         => EndsOnlyOwn(World, onMessage(World, s, CloseMessage, 0), s)
  /\ \A s \in clients :
       HostsIn(World, s)
         => EndsOnlyOwn([World EXCEPT !.readyState[s] = "CLOSED"],
                        closeEvent(World, s), s)
  /\ \A s \in clients :
       (isAlive[s] = FALSE /\ HostsIn(SweepBefore(s), s))
         => EndsOnlyOwn([SweepBefore(s) EXCEPT !.readyState[s] = "CLOSING"],
                        heartbeatSocket(SweepBefore(s), s), s)

\* ------------------------------------------------------------------ C20

\* In world w socket is a registered participant of a registered session whose
\* host is OPEN.
MemberIn(w, socket) ==
  /\ w.clientInfo[socket].role = "player"
  /\ w.clientInfo[socket].code \in DOMAIN w.sessions
  /\ MapGet(w.sessions[w.clientInfo[socket].code].players,
            w.clientInfo[socket].playerId) = socket
  /\ w.readyState[w.sessions[w.clientInfo[socket].code].dm] = "OPEN"

\* The player-left frames for id among the frames out.
LeftFrames(out, id) ==
  { i \in FramesOfType(out, "player-left") : out[i].msg.playerId = id }

\* The step from w0 to w1 in which the member socket left its session told the
\* host so exactly once and removed the member's entry.
LeftOnce(w0, w1, socket) ==
  LET info == w0.clientInfo[socket]
      dm == w0.sessions[info.code].dm
  IN  /\ Cardinality(LeftFrames(w1.sent, info.playerId)) = 1
      /\ \A i \in LeftFrames(w1.sent, info.playerId) : w1.sent[i].to = dm
      /\ info.code \in DOMAIN w1.sessions
           => ~MapHas(w1.sessions[info.code].players, info.playerId)

\* Every player-left(p) among the frames out goes to a host in whose session p
\* was registered, that is to whom player-joined(p) was sent, and only once.
LeftAfterJoined(out) ==
  \A i \in FramesOfType(out, "player-left") :
    /\ \E c \in DOMAIN sessions :
         /\ sessions[c].dm = out[i].to
         /\ MapHas(sessions[c].players, out[i].msg.playerId)
    /\ Cardinality(LeftFrames(out, out[i].msg.playerId)) = 1

\* C20: player-left(p) is sent only to the host that was sent player-joined(p),
\* at most once; and a participant that leaves a registered session with a live
\* host, by its 'close' event, by its timeout, or by joining or creating another
\* session, has the host sent player-left(p) exactly once and its entry removed.
C20_PlayerLeftExactlyOnce ==
  /\ \A s \in Conns,
         m \in CreateMessages \cup JoinMessages \cup RelayMessages
                \cup CloseMessages \cup OtherMessages :
       CanReceive(s) => LeftAfterJoined(onMessage(World, s, m, 0).sent)
  /\ \A s \in clients : LeftAfterJoined(closeEvent(World, s).sent)
  /\ LeftAfterJoined(heartbeatFrom(World, 1, MaxConns).sent)
  /\ \A s \in clients :
       MemberIn(World, s) => LeftOnce(World, closeEvent(World, s), s)
  /\ \A s \in clients :
       (isAlive[s] = FALSE /\ MemberIn(SweepBefore(s), s))
         => LeftOnce(SweepBefore(s), heartbeatSocket(SweepBefore(s), s), s)
  /\ \A s \in Conns, m \in JoinMessages, now \in Times :
       (Rebind(s, m) /\ MemberIn(World, s))
         => LeftOnce(World, onMessage(World, s, m, now), s)
  /\ \A s \in Conns, m \in CreateMessages :
       (CanReceive(s) /\ MemberIn(World, s)
          /\ normalizeCode(m.code) # <<>>
          /\ normalizeCode(m.code) \notin DOMAIN sessions)
         => LeftOnce(World, onMessage(World, s, m, 0), s)

====
